---- MODULE Spec2Model ----
(***************************************************************************)
(* Model of awslabs/elasticbeanstalk_mcp_server/server.py: the four        *)
(* read-only Elastic Beanstalk tools and the client-construction helper.   *)
(* One tool invocation is followed from the call, through                  *)
(* get_beanstalk_client (region resolution, session, credential-verifying  *)
(* describe_applications call), the parameter dictionary built by the      *)
(* tool, the outbound describe_* call, to the value or exception that      *)
(* reaches the caller.  AWS itself is an opaque service: each call either  *)
(* raises some SDK exception or returns some response dictionary.          *)
(***************************************************************************)
EXTENDS Integers, Sequences, FiniteSets, TLC

VARIABLES pc, tool, supplied, environ, region, calls, response, log, outcome

vars == <<pc, tool, supplied, environ, region, calls, response, log, outcome>>

(***************************************************************************)
(* Bounds of the model.                                                    *)
(***************************************************************************)
MaxListLen == 1
MaxIntValue == 1

(***************************************************************************)
(* Python values.  Every value carries its type so that None, "", [], 0    *)
(* and False stay distinct values with the truthiness Python gives them.   *)
(***************************************************************************)
None == [kind |-> "None"]
PyStr(s) == [kind |-> "str", str |-> s]
PyInt(n) == [kind |-> "int", int |-> n]
PyBool(b) == [kind |-> "bool", bool |-> b]
PyList(l) == [kind |-> "list", list |-> l]

Truthy(v) ==
    CASE v.kind = "None" -> FALSE
      [] v.kind = "str" -> v.str # ""
      [] v.kind = "int" -> v.int # 0
      [] v.kind = "bool" -> v.bool
      [] v.kind = "list" -> v.list # <<>>

\* Python's `a or b`
Or(a, b) == IF Truthy(a) THEN a ELSE b

\* Python dictionaries: functions from a finite set of keys
EmptyDict == [k \in {} |-> None]
Put(d, k, v) == [x \in (DOMAIN d) \cup {k} |-> IF x = k THEN v ELSE d[x]]
DictGet(d, k, default) == IF k \in DOMAIN d THEN d[k] ELSE default

DEFAULT_REGION == "us-east-1"

(***************************************************************************)
(* The tools and their parameters.                                         *)
(***************************************************************************)
Tools == {"describe_environments", "describe_applications",
          "describe_events", "describe_config_settings"}

StrArg == {None, PyStr(""), PyStr("a")}
RegionArg == {None, PyStr(""), PyStr("eu-west-1")}
ListArg == {None} \cup {PyList(l) : l \in UNION {[1..n -> {"e1"}] : n \in 0..MaxListLen}}
BoolArg == {None, PyBool(FALSE), PyBool(TRUE)}
IntArg == {None} \cup {PyInt(n) : n \in 0..MaxIntValue}

\* What a caller may pass; None stands for a parameter the caller omits.
Signature(t) ==
    CASE t = "describe_environments" ->
           [application_name : StrArg, environment_names : ListArg,
            environment_ids : ListArg, include_deleted : BoolArg,
            region_name : RegionArg]
      [] t = "describe_applications" ->
           [application_names : ListArg, region_name : RegionArg]
      [] t = "describe_events" ->
           [application_name : StrArg, environment_name : StrArg,
            environment_id : StrArg, start_time : StrArg, end_time : StrArg,
            max_records : IntArg, severity : StrArg, region_name : RegionArg]
      [] t = "describe_config_settings" ->
           [application_name : StrArg \ {None}, environment_name : StrArg,
            template_name : StrArg, region_name : RegionArg]

\* Field(default=...): the value the function body sees for an omitted parameter
FieldDefault(t, p) ==
    IF t = "describe_environments" /\ p = "include_deleted" THEN PyBool(FALSE) ELSE None

Bind(t, s) == [p \in DOMAIN s |-> IF s[p] = None THEN FieldDefault(t, p) ELSE s[p]]

Args == Bind(tool, supplied)

(***************************************************************************)
(* Exceptions.                                                             *)
(***************************************************************************)
RawExceptions == {"botocore.ClientError", "NoCredentialsError"}

\* an exception: its type, where it was raised, its message
Raised(type, origin, msg) == [type |-> type, origin |-> origin, msg |-> msg]

ClientError(origin, msg) == Raised("ClientError", origin, msg)

\* errors.handle_aws_api_error: any exception becomes the uniform ClientError
handle_aws_api_error(e) == ClientError(e.origin, e.msg)

\* common.handle_exceptions: what leaves a decorated tool is a ClientError
handle_exceptions(e) == IF e.type = "ClientError" THEN e ELSE handle_aws_api_error(e)

\* variant: describe_environments registered without @handle_exceptions
Decorated_Missing(t) == t \in Tools \ {"describe_environments"}

\* the tools that carry @handle_exceptions
Decorated(t) == t \in Tools

\* the exception the caller of tool t sees when e leaves the tool's body
Surface(t, e) == IF Decorated(t) THEN handle_exceptions(e) ELSE e

NoOutcome == [status |-> "none"]
Failed(e) == [status |-> "error", exc |-> e]
Returned(r) == [status |-> "ok", result |-> r]

(***************************************************************************)
(* get_beanstalk_client                                                    *)
(***************************************************************************)
ResolveRegion(region_name, env) ==
    Or(region_name, DictGet(env, "AWS_REGION", PyStr(DEFAULT_REGION)))

Call(op, params, reg) == [op |-> op, params |-> params, region |-> reg]

\* variant: the client is returned without the verifying call
VerifyCalls_None(reg) == <<>>

\* the calls client construction issues on the new client
VerifyCalls(reg) == <<Call("describe_applications", EmptyDict, reg)>>

Init ==
    /\ pc = "idle"
    /\ tool = "none"
    /\ supplied = EmptyDict
    /\ environ \in {EmptyDict} \cup {Put(EmptyDict, "AWS_REGION", PyStr(v)) : v \in {"", "ap-south-1"}}
    /\ region = None
    /\ calls = <<>>
    /\ response = None
    /\ log = <<>>
    /\ outcome = NoOutcome

Invoke ==
    /\ pc = "idle"
    /\ \E t \in Tools : \E s \in Signature(t) :
         /\ tool' = t
         /\ supplied' = s
    /\ pc' = "client"
    /\ UNCHANGED <<environ, region, calls, response, log, outcome>>

get_beanstalk_client ==
    /\ pc = "client"
    /\ LET reg == ResolveRegion(Args.region_name, environ) IN
       /\ region' = reg
       /\ \/ \* boto3.Session / session.client raises
             \E x \in RawExceptions :
               /\ calls' = calls
               /\ log' = Append(log, "logger.error")
               /\ outcome' = Failed(Surface(tool, handle_aws_api_error(Raised(x, "session", x))))
               /\ pc' = "done"
          \/ \* the credential-verifying call raises
             \E x \in RawExceptions :
               /\ calls' = calls \o VerifyCalls(reg)
               /\ log' = Append(log, "logger.error")
               /\ outcome' = Failed(Surface(tool, handle_aws_api_error(Raised(x, "verify", x))))
               /\ pc' = "done"
          \/ \* the client is returned
             /\ calls' = calls \o VerifyCalls(reg)
             /\ pc' = "body"
             /\ UNCHANGED <<log, outcome>>
    /\ UNCHANGED <<tool, supplied, environ, response>>

(***************************************************************************)
(* AWS responses: any subset of the list key, NextToken and a further key. *)
(***************************************************************************)
ResponseOver(keys, listKey) ==
    [k \in keys |-> CASE k = listKey -> PyList(<<"item">>)
                      [] k = "NextToken" -> PyStr("token")
                      [] OTHER -> PyStr("metadata")]

Responses(listKey) ==
    {ResponseOver(K, listKey) : K \in SUBSET {listKey, "NextToken", "ResponseMetadata"}}

\* client.<op>(**params): the call is issued, then raises or returns a response;
\* returns pairs each possible response with the value the tool returns for it
ClientCall(op, params, returns) ==
    /\ calls' = Append(calls, Call(op, params, region))
    /\ \/ \E x \in RawExceptions :
            /\ outcome' = Failed(Surface(tool, Raised(x, "call", x)))
            /\ UNCHANGED response
       \/ \E rv \in returns :
            /\ response' = rv[1]
            /\ outcome' = Returned(rv[2])
    /\ pc' = "done"

(***************************************************************************)
(* describe_environments                                                   *)
(***************************************************************************)
\* variant: the include_deleted filter is forgotten
EnvironmentsParams_NoIncludeDeleted(a) ==
    LET p0 == EmptyDict
        p1 == IF Truthy(a.application_name)
              THEN Put(p0, "ApplicationName", a.application_name) ELSE p0
        p2 == IF Truthy(a.environment_names)
              THEN Put(p1, "EnvironmentNames", a.environment_names) ELSE p1
        p3 == IF Truthy(a.environment_ids)
              THEN Put(p2, "EnvironmentIds", a.environment_ids) ELSE p2
    IN p3

EnvironmentsParams(a) ==
    LET p0 == EmptyDict
        p1 == IF Truthy(a.application_name)
              THEN Put(p0, "ApplicationName", a.application_name) ELSE p0
        p2 == IF Truthy(a.environment_names)
              THEN Put(p1, "EnvironmentNames", a.environment_names) ELSE p1
        p3 == IF Truthy(a.environment_ids)
              THEN Put(p2, "EnvironmentIds", a.environment_ids) ELSE p2
        p4 == IF Truthy(a.include_deleted)
              THEN Put(p3, "IncludeDeleted", a.include_deleted) ELSE p3
    IN p4

EnvironmentsResult(resp) ==
    [Environments |-> DictGet(resp, "Environments", PyList(<<>>)),
     NextToken |-> DictGet(resp, "NextToken", None)]

describe_environments ==
    /\ pc = "body"
    /\ tool = "describe_environments"
    /\ ClientCall("describe_environments", EnvironmentsParams(Args),
                  {<<r, EnvironmentsResult(r)>> : r \in Responses("Environments")})
    /\ UNCHANGED <<tool, supplied, environ, region, log>>

(***************************************************************************)
(* describe_applications                                                   *)
(***************************************************************************)
ApplicationsParams(a) ==
    LET p0 == EmptyDict
        p1 == IF Truthy(a.application_names)
              THEN Put(p0, "ApplicationNames", a.application_names) ELSE p0
    IN p1

\* variant: the result is read from a misspelt response key
ApplicationsResult_WrongKey(resp) ==
    [Applications |-> DictGet(resp, "Application", PyList(<<>>))]

ApplicationsResult(resp) ==
    [Applications |-> DictGet(resp, "Applications", PyList(<<>>))]

describe_applications ==
    /\ pc = "body"
    /\ tool = "describe_applications"
    /\ ClientCall("describe_applications", ApplicationsParams(Args),
                  {<<r, ApplicationsResult(r)>> : r \in Responses("Applications")})
    /\ UNCHANGED <<tool, supplied, environ, region, log>>

(***************************************************************************)
(* describe_events                                                         *)
(***************************************************************************)
\* variant: MaxRecords is set without testing max_records
EventsParams_AlwaysMaxRecords(a) ==
    LET p0 == EmptyDict
        p1 == IF Truthy(a.application_name)
              THEN Put(p0, "ApplicationName", a.application_name) ELSE p0
        p2 == IF Truthy(a.environment_name)
              THEN Put(p1, "EnvironmentName", a.environment_name) ELSE p1
        p3 == IF Truthy(a.environment_id)
              THEN Put(p2, "EnvironmentId", a.environment_id) ELSE p2
        p4 == IF Truthy(a.start_time)
              THEN Put(p3, "StartTime", a.start_time) ELSE p3
        p5 == IF Truthy(a.end_time)
              THEN Put(p4, "EndTime", a.end_time) ELSE p4
        p6 == Put(p5, "MaxRecords", a.max_records)
        p7 == IF Truthy(a.severity)
              THEN Put(p6, "Severity", a.severity) ELSE p6
    IN p7

EventsParams(a) ==
    LET p0 == EmptyDict
        p1 == IF Truthy(a.application_name)
              THEN Put(p0, "ApplicationName", a.application_name) ELSE p0
        p2 == IF Truthy(a.environment_name)
              THEN Put(p1, "EnvironmentName", a.environment_name) ELSE p1
        p3 == IF Truthy(a.environment_id)
              THEN Put(p2, "EnvironmentId", a.environment_id) ELSE p2
        p4 == IF Truthy(a.start_time)
              THEN Put(p3, "StartTime", a.start_time) ELSE p3
        p5 == IF Truthy(a.end_time)
              THEN Put(p4, "EndTime", a.end_time) ELSE p4
        p6 == IF Truthy(a.max_records)
              THEN Put(p5, "MaxRecords", a.max_records) ELSE p5
        p7 == IF Truthy(a.severity)
              THEN Put(p6, "Severity", a.severity) ELSE p6
    IN p7

\* variant: the response is returned as it came
EventsResult_Passthrough(resp) == resp

EventsResult(resp) ==
    [Events |-> DictGet(resp, "Events", PyList(<<>>)),
     NextToken |-> DictGet(resp, "NextToken", None)]

describe_events ==
    /\ pc = "body"
    /\ tool = "describe_events"
    /\ ClientCall("describe_events", EventsParams(Args),
                  {<<r, EventsResult(r)>> : r \in Responses("Events")})
    /\ UNCHANGED <<tool, supplied, environ, region, log>>

(***************************************************************************)
(* describe_config_settings                                                *)
(***************************************************************************)
\* variant: the validation tests for None instead of truthiness
NeitherGiven_IsNone(a) == a.environment_name = None /\ a.template_name = None

\* the validation that rejects the call
NeitherGiven(a) == ~Truthy(a.environment_name) /\ ~Truthy(a.template_name)

\* variant: `if` in place of `elif`, both keys can be set
ConfigSettingsParams_BothKeys(a) ==
    LET p0 == Put(EmptyDict, "ApplicationName", a.application_name)
        p1 == IF Truthy(a.environment_name)
              THEN Put(p0, "EnvironmentName", a.environment_name) ELSE p0
        p2 == IF Truthy(a.template_name)
              THEN Put(p1, "TemplateName", a.template_name) ELSE p1
    IN p2

ConfigSettingsParams(a) ==
    LET p0 == Put(EmptyDict, "ApplicationName", a.application_name)
        p1 == IF Truthy(a.environment_name)
              THEN Put(p0, "EnvironmentName", a.environment_name)
              ELSE IF Truthy(a.template_name)
                   THEN Put(p0, "TemplateName", a.template_name) ELSE p0
    IN p1

ConfigSettingsResult(resp) ==
    [ConfigurationSettings |-> DictGet(resp, "ConfigurationSettings", PyList(<<>>))]

ValidationMessage == "Either environment_name or template_name must be provided"

describe_config_settings ==
    /\ pc = "body"
    /\ tool = "describe_config_settings"
    /\ IF NeitherGiven(Args)
       THEN /\ log' = Append(log, "ctx.error")
            /\ outcome' = Failed(Surface(tool, ClientError("validation", ValidationMessage)))
            /\ pc' = "done"
            /\ UNCHANGED <<calls, response>>
       ELSE /\ ClientCall("describe_configuration_settings", ConfigSettingsParams(Args),
                          {<<r, ConfigSettingsResult(r)>> :
                              r \in Responses("ConfigurationSettings")})
            /\ UNCHANGED log
    /\ UNCHANGED <<tool, supplied, environ, region>>

Return ==
    /\ pc = "done"
    /\ pc' = "idle"
    /\ tool' = "none"
    /\ supplied' = EmptyDict
    /\ region' = None
    /\ calls' = <<>>
    /\ response' = None
    /\ log' = <<>>
    /\ outcome' = NoOutcome
    /\ UNCHANGED environ

Next ==
    \/ Invoke
    \/ get_beanstalk_client
    \/ describe_environments
    \/ describe_applications
    \/ describe_events
    \/ describe_config_settings
    \/ Return

Spec == Init /\ [][Next]_vars

(***************************************************************************)
(* Vocabulary of the properties.  These definitions do not use the         *)
(* operators that model the tools.                                         *)
(***************************************************************************)
Finished == pc = "done"

Succeeded == pc = "done" /\ outcome.status = "ok"

FailedAt(origin) ==
    pc = "done" /\ outcome.status = "error" /\ outcome.exc.origin = origin

\* the tool's own describe_* call has been issued
ToolCallIssued == Succeeded \/ FailedAt("call")

ToolCall == calls[Len(calls)]

OpOf(t) ==
    IF t = "describe_config_settings" THEN "describe_configuration_settings" ELSE t

KeyOf(p) ==
    CASE p = "application_name" -> "ApplicationName"
      [] p = "application_names" -> "ApplicationNames"
      [] p = "environment_name" -> "EnvironmentName"
      [] p = "environment_names" -> "EnvironmentNames"
      [] p = "environment_id" -> "EnvironmentId"
      [] p = "environment_ids" -> "EnvironmentIds"
      [] p = "include_deleted" -> "IncludeDeleted"
      [] p = "start_time" -> "StartTime"
      [] p = "end_time" -> "EndTime"
      [] p = "max_records" -> "MaxRecords"
      [] p = "severity" -> "Severity"
      [] p = "template_name" -> "TemplateName"

\* the optional filters of the running tool
OptionalFilters ==
    (DOMAIN supplied) \ (IF tool = "describe_config_settings"
                         THEN {"region_name", "application_name"}
                         ELSE {"region_name"})

Omitted(p) == supplied[p] = None

\* None, "", [], 0 and False
Empty(v) ==
    \/ v = None
    \/ v.kind = "str" /\ v.str = ""
    \/ v.kind = "list" /\ Len(v.list) = 0
    \/ v.kind = "int" /\ v.int = 0
    \/ v.kind = "bool" /\ v.bool = FALSE

NoCallTo(op) == \A i \in 1..Len(calls) : calls[i].op # op

(***************************************************************************)
(* C1: an execution of describe_config_settings that ends in the           *)
(* validation error has issued no call to the AWS client, the              *)
(* credential-verifying describe_applications call included.               *)
(***************************************************************************)
C1_ValidationWithoutAWS == FailedAt("validation") => calls = <<>>

(***************************************************************************)
(* C2: when environment_name and template_name are both absent (None or    *)
(* empty), describe_config_settings never issues                           *)
(* describe_configuration_settings and ends in ClientError, whatever       *)
(* application_name and region_name are.                                   *)
(***************************************************************************)
BothAbsent ==
    /\ tool = "describe_config_settings"
    /\ Empty(supplied.environment_name)
    /\ Empty(supplied.template_name)

C2_RejectsWhenBothAbsent ==
    BothAbsent =>
        /\ NoCallTo("describe_configuration_settings")
        /\ Finished => outcome.status = "error" /\ outcome.exc.type = "ClientError"

C2_Witness ==
    /\ BothAbsent
    /\ FailedAt("validation")
    /\ outcome.exc.type = "ClientError"
    /\ supplied.environment_name = PyStr("")
    /\ supplied.template_name = None

(***************************************************************************)
(* C3: for each tool, the parameters of the outbound call contain no key   *)
(* for an optional filter the caller omitted.                              *)
(***************************************************************************)
C3_OmittedFiltersAbsent ==
    ToolCallIssued =>
        \A p \in OptionalFilters :
            Omitted(p) => KeyOf(p) \notin DOMAIN ToolCall.params

C3_Witness ==
    /\ ToolCallIssued
    /\ tool = "describe_events"
    /\ Omitted("max_records") /\ Omitted("application_name")
    /\ ~Empty(supplied.severity)
    /\ DOMAIN ToolCall.params = {"Severity"}

(***************************************************************************)
(* C4: an exception raised by a call on the AWS client, the verifying call *)
(* of get_beanstalk_client or the tool's own call, reaches the caller as   *)
(* ClientError.                                                            *)
(***************************************************************************)
C4_UniformClientError ==
    (FailedAt("verify") \/ FailedAt("call")) => outcome.exc.type = "ClientError"

C4_Witness ==
    /\ FailedAt("call")
    /\ tool = "describe_environments"
    /\ outcome.exc.type = "ClientError"
    /\ outcome.exc.msg = "botocore.ClientError"

(***************************************************************************)
(* C5: the client's region is the explicit region_name, else AWS_REGION,   *)
(* else DEFAULT_REGION, whether each of the two is unset, empty or         *)
(* non-empty (an empty value selecting nothing).                           *)
(***************************************************************************)
RegionByPrecedence ==
    IF ~Empty(supplied.region_name) THEN supplied.region_name
    ELSE IF "AWS_REGION" \in DOMAIN environ /\ ~Empty(environ["AWS_REGION"])
         THEN environ["AWS_REGION"]
         ELSE PyStr("us-east-1")

C5_RegionPrecedence == Len(calls) >= 1 => calls[1].region = RegionByPrecedence

(***************************************************************************)
(* C6 as stated: a successful run of a tool has issued exactly one call to *)
(* the AWS client.                                                         *)
(***************************************************************************)
C6_SingleCall == Succeeded => Len(calls) = 1

(***************************************************************************)
(* C6 amended: a successful run of a tool has issued exactly two calls,    *)
(* the parameterless verifying describe_applications and then the tool's   *)
(* own describe_* call.                                                    *)
(***************************************************************************)
C6_VerifyThenToolCall ==
    Succeeded =>
        /\ Len(calls) = 2
        /\ calls[1].op = "describe_applications"
        /\ calls[1].params = EmptyDict
        /\ calls[2].op = OpOf(tool)

C6_Witness ==
    /\ Succeeded
    /\ tool = "describe_config_settings"
    /\ Len(calls) = 2
    /\ calls[2].op = "describe_configuration_settings"

(***************************************************************************)
(* C7: with environment_name and template_name both supplied,              *)
(* describe_config_settings sends EnvironmentName with the supplied value  *)
(* and no TemplateName; every call it sends has ApplicationName and        *)
(* exactly one of EnvironmentName and TemplateName.                        *)
(***************************************************************************)
BothSupplied ==
    ~Empty(supplied.environment_name) /\ ~Empty(supplied.template_name)

C7_EnvironmentPreferred ==
    (ToolCallIssued /\ tool = "describe_config_settings") =>
        LET params == ToolCall.params IN
        /\ "ApplicationName" \in DOMAIN params
        /\ params["ApplicationName"] = supplied.application_name
        /\ ("EnvironmentName" \in DOMAIN params) # ("TemplateName" \in DOMAIN params)
        /\ BothSupplied =>
              /\ "EnvironmentName" \in DOMAIN params
              /\ params["EnvironmentName"] = supplied.environment_name
              /\ "TemplateName" \notin DOMAIN params

C7_Witness ==
    /\ ToolCallIssued
    /\ tool = "describe_config_settings"
    /\ BothSupplied
    /\ DOMAIN ToolCall.params = {"ApplicationName", "EnvironmentName"}

(***************************************************************************)
(* C8: describe_applications called without application_names fails only   *)
(* when an AWS call fails; otherwise the outbound describe_applications    *)
(* call names no application (its filter is empty) and the result is the   *)
(* Applications list of the response.                                      *)
(***************************************************************************)
NoArguments ==
    /\ tool = "describe_applications"
    /\ supplied.application_names = None
    /\ supplied.region_name = None

C8_NoArgumentsListsAll ==
    (Finished /\ NoArguments) =>
        /\ outcome.status = "error" =>
              outcome.exc.origin \in {"session", "verify", "call"}
        /\ outcome.status = "ok" =>
              /\ ToolCall.op = "describe_applications"
              /\ ToolCall.params = EmptyDict
              /\ DOMAIN outcome.result = {"Applications"}
              /\ "Applications" \in DOMAIN response =>
                    outcome.result["Applications"] = response["Applications"]

C8_Witness ==
    /\ Succeeded
    /\ NoArguments
    /\ "Applications" \in DOMAIN response
    /\ outcome.result["Applications"] = PyList(<<"item">>)

(***************************************************************************)
(* C9: a successful result has a fixed key set: the list key, and          *)
(* NextToken for describe_environments and describe_events.  A list key    *)
(* missing from the response becomes the empty list, a missing NextToken   *)
(* becomes None, and no other key of the response is passed through.       *)
(***************************************************************************)
ListKeyOf(t) ==
    CASE t = "describe_environments" -> "Environments"
      [] t = "describe_applications" -> "Applications"
      [] t = "describe_events" -> "Events"
      [] t = "describe_config_settings" -> "ConfigurationSettings"

Paginated(t) == t \in {"describe_environments", "describe_events"}

C9_FixedResultKeys ==
    Succeeded =>
        LET result == outcome.result
            lk == ListKeyOf(tool) IN
        /\ DOMAIN result = {lk} \cup (IF Paginated(tool) THEN {"NextToken"} ELSE {})
        /\ result[lk] = (IF lk \in DOMAIN response THEN response[lk] ELSE PyList(<<>>))
        /\ Paginated(tool) =>
              result["NextToken"] = (IF "NextToken" \in DOMAIN response
                                     THEN response["NextToken"] ELSE None)

C9_Witness ==
    /\ Succeeded
    /\ tool = "describe_events"
    /\ DOMAIN response = {"ResponseMetadata"}
    /\ outcome.result = [Events |-> PyList(<<>>), NextToken |-> None]

(***************************************************************************)
(* C10 as stated: every optional filter the caller supplies, empty values  *)
(* (0, false, "", []) included, is in the outbound parameters with exactly *)
(* the supplied value.                                                     *)
(***************************************************************************)
C10_SuppliedCopied ==
    ToolCallIssued =>
        \A p \in OptionalFilters :
            ~Omitted(p) =>
                /\ KeyOf(p) \in DOMAIN ToolCall.params
                /\ ToolCall.params[KeyOf(p)] = supplied[p]

(***************************************************************************)
(* C10 amended: every optional filter supplied with a non-empty value      *)
(* (non-empty string or list, non-zero max_records, include_deleted true)  *)
(* is in the outbound parameters with exactly that value, except           *)
(* template_name of describe_config_settings when environment_name is      *)
(* non-empty too; a filter supplied as 0, false, "" or [] is left out.     *)
(***************************************************************************)
Shadowed(p) ==
    /\ tool = "describe_config_settings"
    /\ p = "template_name"
    /\ ~Empty(supplied.environment_name)

C10_NonEmptyCopied ==
    ToolCallIssued =>
        \A p \in OptionalFilters :
            IF Empty(supplied[p]) \/ Shadowed(p)
            THEN KeyOf(p) \notin DOMAIN ToolCall.params
            ELSE /\ KeyOf(p) \in DOMAIN ToolCall.params
                 /\ ToolCall.params[KeyOf(p)] = supplied[p]

C10_Witness ==
    /\ ToolCallIssued
    /\ tool = "describe_environments"
    /\ supplied.environment_names = PyList(<<"e1">>)
    /\ supplied.environment_ids = PyList(<<"e1">>)
    /\ supplied.include_deleted = PyBool(TRUE)
    /\ supplied.application_name = PyStr("")
    /\ DOMAIN ToolCall.params = {"EnvironmentNames", "EnvironmentIds", "IncludeDeleted"}
====
